---- MODULE Spec2Model ----
(***************************************************************************)
(* Model of src/login.py: login_account (the retry loop around one login   *)
(* attempt driven through a Playwright browser) and main (the batch loop   *)
(* over the parsed accounts).                                              *)
(*                                                                         *)
(* A text is modelled as the sequence of its characters; `x in text` is    *)
(* the search for a run of consecutive characters and str.lower() maps     *)
(* each character to its lower-case form, which can be more than one       *)
(* character.  A printable ASCII character is written as itself, any other *)
(* character of the alphabet Chars as U+ and its code point, except that a *)
(* Chinese character is written as its pinyin syllable: 输 shu, 入 ru,      *)
(* 邮 you, 箱 xiang, 地 di, 址 zhi, 登 deng, 录 lu, 用 yong, 户 hu,        *)
(* 中 zhong, 心 xin, 到 dao, 您 nin, 的 de, 账 zhang, 正 zheng, 在 zai,    *)
(* 验 yan, 证 zheng2, 控 kong, 制 zhi2, 台 tai, 注 zhu, 销 xiao, 密 mi,    *)
(* 码 ma, 错 cuo, 误 wu, 失 shi, 败 bai, 或 huo, 不 bu, 确 que.            *)
(*                                                                         *)
(* Every call on the browser collaborator (launch, new_context, new_page,  *)
(* goto, content, query_selector, fill, click, screenshot, close) either   *)
(* returns or raises; which one is an input of the action that makes it.   *)
(***************************************************************************)
EXTENDS Integers, Sequences, FiniteSets, TLC

\* ------------------------------------------------------------------ bounds
\* largest max_retries a direct call of login_account is given
MaxRetriesBound == 2
\* longest page text, in words
MaxPageTokens == 2
\* longest parsed account list of main
MaxAccounts == 2

\* ------------------------------------------------------- program constants
\* max_wait = 300 (seconds), line 94
max_wait == 300
\* time.sleep(3), the polling interval, line 163
PollInterval == 3
\* click(timeout=5000, force=True), lines 147 and 151 (milliseconds)
ClickTimeout == 5000
\* time.sleep(1.5) after a click that returned, line 155 (milliseconds)
ClickPause == 1500
\* wait_sec = 10 + attempt * 5, line 343
BackoffBase == 10
BackoffStep == 5
\* login_account(p, user, pwd, max_retries=2), line 403
MainMaxRetries == 2

\* ------------------------------------------------------------------- text
\* a text is the sequence of its characters; a Chinese character is written as
\* its pinyin syllable (see the head of the module)
\* the words page texts are built from: Dashboard, 密码错误, 登录, 失败, Cloudflare
DashboardWord == <<"D", "a", "s", "h", "b", "o", "a", "r", "d">>
WrongPasswordWord == <<"mi", "ma", "cuo", "wu">>
LoginWord == <<"deng", "lu">>
FailedWord == <<"shi", "bai">>
\* Chec\u212aing your browser (with the Kelvin sign) and \u0130nvalid login
\* (with the dotted capital I)
KelvinCheckingWord ==
    <<"C", "h", "e", "c", "U+212A", "i", "n", "g", " ", "y", "o", "u", "r", " ",
      "b", "r", "o", "w", "s", "e", "r">>
DottedInvalidWord ==
    <<"U+0130", "n", "v", "a", "l", "i", "d", " ", "l", "o", "g", "i", "n">>
CloudflareWord == <<"C", "l", "o", "u", "d", "f", "l", "a", "r", "e">>
Vocab ==
    {DashboardWord, WrongPasswordWord, LoginWord, FailedWord, CloudflareWord,
     DottedInvalidWord}

\* the addresses: /clientarea, /Dashboard, /users
UrlVocab ==
    {<<"/", "c", "l", "i", "e", "n", "t", "a", "r", "e", "a">>,
     <<"/", "D", "a", "s", "h", "b", "o", "a", "r", "d">>,
     <<"/", "u", "s", "e", "r", "s">>}

RECURSIVE SeqsUpTo(_, _)
SeqsUpTo(S, n) ==
    IF n = 0 THEN {<<>>}
    ELSE LET shorter == SeqsUpTo(S, n - 1)
         IN  shorter \cup {Append(s, t) : s \in {q \in shorter : Len(q) = n - 1}, t \in S}

\* the texts made of at most n words of S, one after the other
RECURSIVE TextsUpTo(_, _)
TextsUpTo(S, n) ==
    IF n = 0 THEN {<<>>}
    ELSE LET shorter == TextsUpTo(S, n - 1)
         IN  shorter \cup {t \o w : t \in shorter, w \in S}

Pages == TextsUpTo(Vocab, MaxPageTokens)
Urls  == TextsUpTo(UrlVocab, 1)

\* the documents read while polling and shown after a submission in the runs
\* of login_account explored: one for each combination of indicators
PollSamples == {<<>>, KelvinCheckingWord, LoginWord, KelvinCheckingWord \o LoginWord}
EvalSamples == {<<>>, DashboardWord, WrongPasswordWord, DashboardWord \o WrongPasswordWord}

\* the characters of the texts: the printable ASCII characters with tab and
\* newline (the backslash, the backquote, the tab and the newline are written
\* U+005C, U+0060, U+0009 and U+000A), the Chinese characters of the phrase
\* lists, and the characters U+00A0 to U+017F (Latin-1 Supplement, Latin Extended-A) with U+0307
\* (combining dot above), U+212A (Kelvin sign), U+212B (Angstrom sign), U+2126
\* (Ohm sign) and U+03C9 (omega); str.lower() leaves the characters of the
\* first three sets unchanged
AsciiUncased ==
    {" ", "!", "\"", "#", "$", "%", "&", "'", "(", ")", "*", "+", ",", "-",
     ".", "/", "0", "1", "2", "3", "4", "5", "6", "7", "8", "9", ":", ";",
     "<", "=", ">", "?", "@", "[", "U+005C", "]", "^", "_", "U+0060", "a", "b", "c",
     "d", "e", "f", "g", "h", "i", "j", "k", "l", "m", "n", "o", "p", "q",
     "r", "s", "t", "u", "v", "w", "x", "y", "z", "{", "|", "}", "~", "U+0009",
     "U+000A"}

ChineseChars ==
    {"shu", "ru", "you", "xiang", "di", "zhi", "deng", "lu", "yong", "hu",
     "zhong", "xin", "dao", "nin", "de", "zhang", "zheng", "zai", "yan",
     "zheng2", "kong", "zhi2", "tai", "zhu", "xiao", "mi", "ma", "cuo", "wu",
     "shi", "bai", "huo", "bu", "que"}

OtherUncased ==
    {"U+00A0", "U+00A1", "U+00A2", "U+00A3", "U+00A4", "U+00A5", "U+00A6",
     "U+00A7", "U+00A8", "U+00A9", "U+00AA", "U+00AB", "U+00AC", "U+00AD",
     "U+00AE", "U+00AF", "U+00B0", "U+00B1", "U+00B2", "U+00B3", "U+00B4",
     "U+00B5", "U+00B6", "U+00B7", "U+00B8", "U+00B9", "U+00BA", "U+00BB",
     "U+00BC", "U+00BD", "U+00BE", "U+00BF", "U+00D7", "U+00DF", "U+00E0",
     "U+00E1", "U+00E2", "U+00E3", "U+00E4", "U+00E5", "U+00E6", "U+00E7",
     "U+00E8", "U+00E9", "U+00EA", "U+00EB", "U+00EC", "U+00ED", "U+00EE",
     "U+00EF", "U+00F0", "U+00F1", "U+00F2", "U+00F3", "U+00F4", "U+00F5",
     "U+00F6", "U+00F7", "U+00F8", "U+00F9", "U+00FA", "U+00FB", "U+00FC",
     "U+00FD", "U+00FE", "U+00FF", "U+0101", "U+0103", "U+0105", "U+0107",
     "U+0109", "U+010B", "U+010D", "U+010F", "U+0111", "U+0113", "U+0115",
     "U+0117", "U+0119", "U+011B", "U+011D", "U+011F", "U+0121", "U+0123",
     "U+0125", "U+0127", "U+0129", "U+012B", "U+012D", "U+012F", "U+0131",
     "U+0133", "U+0135", "U+0137", "U+0138", "U+013A", "U+013C", "U+013E",
     "U+0140", "U+0142", "U+0144", "U+0146", "U+0148", "U+0149", "U+014B",
     "U+014D", "U+014F", "U+0151", "U+0153", "U+0155", "U+0157", "U+0159",
     "U+015B", "U+015D", "U+015F", "U+0161", "U+0163", "U+0165", "U+0167",
     "U+0169", "U+016B", "U+016D", "U+016F", "U+0171", "U+0173", "U+0175",
     "U+0177", "U+017A", "U+017C", "U+017E", "U+017F", "U+0307", "U+03C9"}

AsciiCased ==
    {"A", "B", "C", "D", "E", "F", "G", "H", "I", "J", "K", "L", "M", "N",
     "O", "P", "Q", "R", "S", "T", "U", "V", "W", "X", "Y", "Z"}

OtherCased ==
    {"U+00C0", "U+00C1", "U+00C2", "U+00C3", "U+00C4", "U+00C5", "U+00C6",
     "U+00C7", "U+00C8", "U+00C9", "U+00CA", "U+00CB", "U+00CC", "U+00CD",
     "U+00CE", "U+00CF", "U+00D0", "U+00D1", "U+00D2", "U+00D3", "U+00D4",
     "U+00D5", "U+00D6", "U+00D8", "U+00D9", "U+00DA", "U+00DB", "U+00DC",
     "U+00DD", "U+00DE", "U+0100", "U+0102", "U+0104", "U+0106", "U+0108",
     "U+010A", "U+010C", "U+010E", "U+0110", "U+0112", "U+0114", "U+0116",
     "U+0118", "U+011A", "U+011C", "U+011E", "U+0120", "U+0122", "U+0124",
     "U+0126", "U+0128", "U+012A", "U+012C", "U+012E", "U+0130", "U+0132",
     "U+0134", "U+0136", "U+0139", "U+013B", "U+013D", "U+013F", "U+0141",
     "U+0143", "U+0145", "U+0147", "U+014A", "U+014C", "U+014E", "U+0150",
     "U+0152", "U+0154", "U+0156", "U+0158", "U+015A", "U+015C", "U+015E",
     "U+0160", "U+0162", "U+0164", "U+0166", "U+0168", "U+016A", "U+016C",
     "U+016E", "U+0170", "U+0172", "U+0174", "U+0176", "U+0178", "U+0179",
     "U+017B", "U+017D", "U+212A", "U+212B", "U+2126"}

Chars == AsciiUncased \cup ChineseChars \cup OtherUncased \cup AsciiCased \cup OtherCased

\* str.lower() on one character of Chars: the characters it gives; a cased
\* character gives its lower-case form, which for U+0130 is two characters
LowerChar(c) ==
    CASE c \in AsciiUncased \cup ChineseChars \cup OtherUncased -> <<c>>
      [] c = "A" -> <<"a">> [] c = "B" -> <<"b">> [] c = "C" -> <<"c">>
      [] c = "D" -> <<"d">> [] c = "E" -> <<"e">> [] c = "F" -> <<"f">>
      [] c = "G" -> <<"g">> [] c = "H" -> <<"h">> [] c = "I" -> <<"i">>
      [] c = "J" -> <<"j">> [] c = "K" -> <<"k">> [] c = "L" -> <<"l">>
      [] c = "M" -> <<"m">> [] c = "N" -> <<"n">> [] c = "O" -> <<"o">>
      [] c = "P" -> <<"p">> [] c = "Q" -> <<"q">> [] c = "R" -> <<"r">>
      [] c = "S" -> <<"s">> [] c = "T" -> <<"t">> [] c = "U" -> <<"u">>
      [] c = "V" -> <<"v">> [] c = "W" -> <<"w">> [] c = "X" -> <<"x">>
      [] c = "Y" -> <<"y">> [] c = "Z" -> <<"z">>
      [] c = "U+00C0" -> <<"U+00E0">> [] c = "U+00C1" -> <<"U+00E1">>
      [] c = "U+00C2" -> <<"U+00E2">> [] c = "U+00C3" -> <<"U+00E3">>
      [] c = "U+00C4" -> <<"U+00E4">> [] c = "U+00C5" -> <<"U+00E5">>
      [] c = "U+00C6" -> <<"U+00E6">> [] c = "U+00C7" -> <<"U+00E7">>
      [] c = "U+00C8" -> <<"U+00E8">> [] c = "U+00C9" -> <<"U+00E9">>
      [] c = "U+00CA" -> <<"U+00EA">> [] c = "U+00CB" -> <<"U+00EB">>
      [] c = "U+00CC" -> <<"U+00EC">> [] c = "U+00CD" -> <<"U+00ED">>
      [] c = "U+00CE" -> <<"U+00EE">> [] c = "U+00CF" -> <<"U+00EF">>
      [] c = "U+00D0" -> <<"U+00F0">> [] c = "U+00D1" -> <<"U+00F1">>
      [] c = "U+00D2" -> <<"U+00F2">> [] c = "U+00D3" -> <<"U+00F3">>
      [] c = "U+00D4" -> <<"U+00F4">> [] c = "U+00D5" -> <<"U+00F5">>
      [] c = "U+00D6" -> <<"U+00F6">> [] c = "U+00D8" -> <<"U+00F8">>
      [] c = "U+00D9" -> <<"U+00F9">> [] c = "U+00DA" -> <<"U+00FA">>
      [] c = "U+00DB" -> <<"U+00FB">> [] c = "U+00DC" -> <<"U+00FC">>
      [] c = "U+00DD" -> <<"U+00FD">> [] c = "U+00DE" -> <<"U+00FE">>
      [] c = "U+0100" -> <<"U+0101">> [] c = "U+0102" -> <<"U+0103">>
      [] c = "U+0104" -> <<"U+0105">> [] c = "U+0106" -> <<"U+0107">>
      [] c = "U+0108" -> <<"U+0109">> [] c = "U+010A" -> <<"U+010B">>
      [] c = "U+010C" -> <<"U+010D">> [] c = "U+010E" -> <<"U+010F">>
      [] c = "U+0110" -> <<"U+0111">> [] c = "U+0112" -> <<"U+0113">>
      [] c = "U+0114" -> <<"U+0115">> [] c = "U+0116" -> <<"U+0117">>
      [] c = "U+0118" -> <<"U+0119">> [] c = "U+011A" -> <<"U+011B">>
      [] c = "U+011C" -> <<"U+011D">> [] c = "U+011E" -> <<"U+011F">>
      [] c = "U+0120" -> <<"U+0121">> [] c = "U+0122" -> <<"U+0123">>
      [] c = "U+0124" -> <<"U+0125">> [] c = "U+0126" -> <<"U+0127">>
      [] c = "U+0128" -> <<"U+0129">> [] c = "U+012A" -> <<"U+012B">>
      [] c = "U+012C" -> <<"U+012D">> [] c = "U+012E" -> <<"U+012F">>
      [] c = "U+0130" -> <<"i", "U+0307">> [] c = "U+0132" -> <<"U+0133">>
      [] c = "U+0134" -> <<"U+0135">> [] c = "U+0136" -> <<"U+0137">>
      [] c = "U+0139" -> <<"U+013A">> [] c = "U+013B" -> <<"U+013C">>
      [] c = "U+013D" -> <<"U+013E">> [] c = "U+013F" -> <<"U+0140">>
      [] c = "U+0141" -> <<"U+0142">> [] c = "U+0143" -> <<"U+0144">>
      [] c = "U+0145" -> <<"U+0146">> [] c = "U+0147" -> <<"U+0148">>
      [] c = "U+014A" -> <<"U+014B">> [] c = "U+014C" -> <<"U+014D">>
      [] c = "U+014E" -> <<"U+014F">> [] c = "U+0150" -> <<"U+0151">>
      [] c = "U+0152" -> <<"U+0153">> [] c = "U+0154" -> <<"U+0155">>
      [] c = "U+0156" -> <<"U+0157">> [] c = "U+0158" -> <<"U+0159">>
      [] c = "U+015A" -> <<"U+015B">> [] c = "U+015C" -> <<"U+015D">>
      [] c = "U+015E" -> <<"U+015F">> [] c = "U+0160" -> <<"U+0161">>
      [] c = "U+0162" -> <<"U+0163">> [] c = "U+0164" -> <<"U+0165">>
      [] c = "U+0166" -> <<"U+0167">> [] c = "U+0168" -> <<"U+0169">>
      [] c = "U+016A" -> <<"U+016B">> [] c = "U+016C" -> <<"U+016D">>
      [] c = "U+016E" -> <<"U+016F">> [] c = "U+0170" -> <<"U+0171">>
      [] c = "U+0172" -> <<"U+0173">> [] c = "U+0174" -> <<"U+0175">>
      [] c = "U+0176" -> <<"U+0177">> [] c = "U+0178" -> <<"U+00FF">>
      [] c = "U+0179" -> <<"U+017A">> [] c = "U+017B" -> <<"U+017C">>
      [] c = "U+017D" -> <<"U+017E">> [] c = "U+212A" -> <<"k">>
      [] c = "U+212B" -> <<"U+00E5">> [] c = "U+2126" -> <<"U+03C9">>

\* str.lower(), lines 107 and 274: the lower-case forms of the characters, one
\* after the other (the result can be longer than the text)
RECURSIVE Lower(_)
Lower(s) == IF s = <<>> THEN <<>> ELSE LowerChar(Head(s)) \o Lower(Tail(s))

\* needle in hay: needle is a run of consecutive characters of hay
Contains(hay, needle) ==
    \E i \in 0..(Len(hay) - Len(needle)) :
        \A j \in 1..Len(needle) : hay[i + j] = needle[j]

\* login_indicators, lines 98-102
login_indicators ==
    << <<"shu", "ru", "you", "xiang">>,
       <<"you", "xiang", "di", "zhi">>,
       <<"E", "m", "a", "i", "l">>,
       <<"you", "xiang">>,
       <<"deng", "lu", "yong", "hu", "zhong", "xin">>,
       <<"deng", "lu">>,
       <<"deng", "lu", "dao", "nin", "de", "zhang", "hu">>,
       <<"p", "l", "a", "c", "e", "h", "o", "l", "d", "e", "r", "=", "\"", "shu", "ru", "you", "xiang", "\"">>,
       <<"i", "n", "p", "u", "t", "[", "t", "y", "p", "e", "=", "\"", "e", "m", "a", "i", "l", "\"", "]">> >>

\* the challenge phrases of line 119
cf_phrases ==
    << <<"c", "l", "o", "u", "d", "f", "l", "a", "r", "e">>,
       <<"zheng", "zai", "yan", "zheng2">>,
       <<"c", "h", "e", "c", "k", "i", "n", "g", " ", "y", "o", "u", "r", " ", "b", "r", "o", "w", "s", "e", "r">> >>

\* success_signs, line 278
success_signs ==
    << <<"d", "a", "s", "h", "b", "o", "a", "r", "d">>,
       <<"c", "l", "i", "e", "n", "t", " ", "a", "r", "e", "a">>,
       <<"m", "y", " ", "s", "e", "r", "v", "i", "c", "e", "s">>,
       <<"t", "i", "m", "e", " ", "u", "n", "t", "i", "l", " ", "s", "u", "s", "p", "e", "n", "s", "i", "o", "n">>,
       <<"s", "e", "c", "u", "r", "i", "t", "y", " ", "s", "e", "t", "t", "i", "n", "g", "s">>,
       <<"yong", "hu", "zhong", "xin">>,
       <<"kong", "zhi2", "tai">>,
       <<"zhu", "xiao">>,
       <<"l", "o", "g", "o", "u", "t">> >>

\* the URL fragments of line 281
success_url_parts ==
    << <<"/", "d", "a", "s", "h", "b", "o", "a", "r", "d">>,
       <<"/", "c", "l", "i", "e", "n", "t", "a", "r", "e", "a">>,
       <<"/", "u", "s", "e", "r">>,
       <<"/", "a", "c", "c", "o", "u", "n", "t">>,
       <<"/", "h", "o", "m", "e">> >>

\* failure_signs, line 308
failure_signs ==
    << <<"w", "r", "o", "n", "g", " ", "p", "a", "s", "s", "w", "o", "r", "d">>,
       <<"mi", "ma", "cuo", "wu">>,
       <<"i", "n", "v", "a", "l", "i", "d", " ", "l", "o", "g", "i", "n">>,
       <<"deng", "lu", "shi", "bai">>,
       <<"you", "xiang", "huo", "mi", "ma", "bu", "zheng", "que">>,
       <<"n", "o", "t", " ", "a", " ", "m", "e", "m", "b", "e", "r", " ", "y", "e", "t", "?">> >>

\* any(x in text for x in list)
AnyIn(list, text) == \E k \in 1..Len(list) : Contains(text, list[k])

\* line 112: any(ind.lower() in html_lower for ind in login_indicators)
LoginIndicatorHit(text) ==
    \E k \in 1..Len(login_indicators) : Contains(text, Lower(login_indicators[k]))

\* line 119: a challenge phrase in html_lower
CfPhraseHit(text) == AnyIn(cf_phrases, text)

\* line 281: the success condition
SuccessHit(h, url) == AnyIn(success_signs, h) \/ AnyIn(success_url_parts, url)

\* line 309: the failure condition
FailureHit(h) == AnyIn(failure_signs, h)

\* the post-submit checks with the failure test first
EvaluateOutcomeFailureFirst(h, url) ==
    IF FailureHit(h) THEN "credfail"
    ELSE IF SuccessHit(h, url) THEN "success"
    ELSE "unknown"

\* lines 281, 309, 315: the priority of the post-submit checks
EvaluateOutcome(h, url) ==
    IF SuccessHit(h, url) THEN "success"
    ELSE IF FailureHit(h) THEN "credfail"
    ELSE "unknown"

\* ------------------------------------------------------------------ state
VARIABLES
    \* login_account: its parameters and the locals of the retry loop
    pc, max_retries, USER, PWD, attempt,
    \* the session of the current attempt: "None" (the local is None), "open",
    \* "closed" (close() returned)
    browser, context, page,
    \* the polling phase: milliseconds since start (time.time() - start), the flags
    elapsed, saw_cf, login_page_reached,
    \* the text read by the current polling tick (line 107)
    html_lower,
    \* fill, submit, evaluate
    filled_user, filled_pw, submitted, html, current_url,
    \* the try statement: the caught exception, what happens once the finally
    \* clause has run ("return", "raise", "continue"), the backoff slept
    e, pending, wait_sec,
    \* how the call ended: "running", "returned", "raised", and the error raised
    result, error,
    \* observations of the run (not program variables)
    closeCalls,     \* browser.close() calls made in the current attempt
    outcome,        \* what the current attempt determined: "none", "success",
                    \* "keepalive", "credfail", "unknown"
    captured,       \* artifacts written in the current attempt
    windowElapsed,  \* the polling loop ended because the window elapsed
    challengeSeen,  \* some tick of the attempt found a challenge indicator
    tried, completed, \* submission strategies tried / completed in the attempt
    tickState,      \* what the latest polling tick found: "LoginFormReady",
                    \* "ChallengePending", "Unknown" ("none": no tick yet)
    interaction,    \* what the Turnstile block of lines 132-160 did on the latest
                    \* tick: "none" (not reached), "skipped" (saw_cf false),
                    \* "no-iframe", "no-frame", "clicked", "raised"
    attempted,      \* captures the handler of the current attempt started
    last_wait,      \* the backoff slept before the current attempt (0: none)
    swallowed,      \* the exceptions of the current attempt that were swallowed
                    \* where they occurred: "fill-error" (lines 193, 207),
                    \* "content-error" (line 275)
    \* the browser's current document and address (the environment)
    dom, location,
    \* main
    mainpc, accounts, idx, success_count, report_lines

callVars  == <<max_retries, USER, PWD>>
envVars   == <<dom, location>>
sessVars  == <<browser, context, page>>
pollVars  == <<elapsed, saw_cf, login_page_reached, windowElapsed, challengeSeen,
               html_lower, tickState, interaction>>
formVars  == <<filled_user, filled_pw, submitted, html, current_url, tried, completed>>
excVars   == <<e, pending, wait_sec>>
outVars   == <<result, error>>
mainVars  == <<mainpc, accounts, idx, success_count, report_lines>>
obsVars   == <<attempted, last_wait, swallowed>>
vars == <<pc, callVars, envVars, attempt, sessVars, pollVars, formVars, excVars, outVars,
          closeCalls, outcome, captured, obsVars, mainVars>>

\* the locals of login_account at entry (lines 45-53)
EnterLogin(u, p, r) ==
    /\ pc = "while" /\ max_retries = r /\ USER = u /\ PWD = p /\ attempt = 0
    /\ browser = "None" /\ context = "None" /\ page = "None"
    /\ elapsed = 0 /\ saw_cf = FALSE /\ login_page_reached = FALSE
    /\ windowElapsed = FALSE /\ challengeSeen = FALSE
    /\ html_lower = <<>> /\ tickState = "none" /\ interaction = "none"
    /\ filled_user = FALSE /\ filled_pw = FALSE /\ submitted = FALSE
    /\ html = <<>> /\ current_url = <<>> /\ tried = {} /\ completed = {}
    /\ e = "none" /\ pending = "none" /\ wait_sec = 0
    /\ result = "running" /\ error = "none"
    /\ closeCalls = 0 /\ outcome = "none" /\ captured = {}
    /\ attempted = {} /\ last_wait = 0 /\ swallowed = {}
    /\ dom = <<>> /\ location = <<>>

\* the values of max_retries tried: -1 (no attempt at all) up to the bound
RetryBudgets == (0 - 1)..MaxRetriesBound

\* a direct call login_account(playwright, USER, PWD, max_retries); USER and PWD
\* are modelled by their truth value (non-empty or empty)
Init ==
    /\ \E u \in BOOLEAN, p \in BOOLEAN, r \in RetryBudgets : EnterLogin(u, p, r)
    /\ mainpc = "direct" /\ accounts = <<>> /\ idx = 0
    /\ success_count = 0 /\ report_lines = <<>>

\* lines 106-109 and 273-276: page.content(), or "" when the call raises
PageRead(doc, readOk) == IF readOk THEN doc ELSE <<>>

\* ------------------------------------------------- login_account: the loop
\* line 55: while attempt <= max_retries
LoopGuard(a, r) == a <= r

\* a loop that forgets to count the attempt
NextAttemptStuck(a) == a

\* line 56: attempt += 1
NextAttempt(a) == a + 1

\* a launched browser on which browser.close() was never called
Unreleased(b, calls) == b # "None" /\ calls = 0

\* lines 55-60: the loop test, the increment and the reset of the session locals
\* (the other locals of the previous iteration are dead and are reset with them)
LoopTest ==
    /\ pc = "while"
    /\ IF LoopGuard(attempt, max_retries)
       THEN /\ attempt' = NextAttempt(attempt)
            /\ pc' = "launch"
            /\ browser' = "None" /\ context' = "None" /\ page' = "None"
            /\ elapsed' = 0 /\ saw_cf' = FALSE /\ login_page_reached' = FALSE
            /\ windowElapsed' = FALSE /\ challengeSeen' = FALSE
            /\ html_lower' = <<>> /\ tickState' = "none" /\ interaction' = "none"
            /\ filled_user' = FALSE /\ filled_pw' = FALSE /\ submitted' = FALSE
            /\ html' = <<>> /\ current_url' = <<>> /\ tried' = {} /\ completed' = {}
            /\ e' = "none" /\ pending' = "none" /\ wait_sec' = 0
            /\ closeCalls' = 0 /\ outcome' = "none" /\ captured' = {}
            /\ attempted' = {} /\ last_wait' = wait_sec /\ swallowed' = {}
            /\ dom' = <<>> /\ location' = <<>>
            /\ UNCHANGED <<callVars, outVars, mainVars>>
       ELSE /\ pc' = "postloop"
            /\ UNCHANGED <<callVars, envVars, attempt, sessVars, pollVars, formVars, excVars,
                           outVars, closeCalls, outcome, captured, obsVars, mainVars>>

\* lines 357-358: the error raised after the loop
PostLoop ==
    /\ pc = "postloop"
    /\ pc' = "done" /\ result' = "raised" /\ error' = "failed-all"
    /\ UNCHANGED <<callVars, envVars, attempt, sessVars, pollVars, formVars, excVars,
                   closeCalls, outcome, captured, obsVars, mainVars>>

\* an exception raised inside the try block reaches the handler of line 318
Raise(err) == e' = err /\ pc' = "except"

\* lines 64-68: playwright.chromium.launch
Launch ==
    /\ pc = "launch"
    /\ \E ok \in BOOLEAN :
         IF ok THEN browser' = "open" /\ pc' = "new_context" /\ e' = e
               ELSE browser' = browser /\ Raise("launch-error")
    /\ UNCHANGED <<callVars, envVars, attempt, context, page, pollVars, formVars, pending,
                   wait_sec, outVars, closeCalls, outcome, captured, obsVars, mainVars>>

\* lines 72-78: browser.new_context
NewContext ==
    /\ pc = "new_context"
    /\ \E ok \in BOOLEAN :
         IF ok THEN context' = "open" /\ pc' = "new_page" /\ e' = e
               ELSE context' = context /\ Raise("context-error")
    /\ UNCHANGED <<callVars, envVars, attempt, browser, page, pollVars, formVars, pending,
                   wait_sec, outVars, closeCalls, outcome, captured, obsVars, mainVars>>

\* line 81: context.new_page
NewPage ==
    /\ pc = "new_page"
    /\ \E ok \in BOOLEAN :
         IF ok THEN page' = "open" /\ pc' = "goto" /\ e' = e
               ELSE page' = page /\ Raise("page-error")
    /\ UNCHANGED <<callVars, envVars, attempt, browser, context, pollVars, formVars, pending,
                   wait_sec, outVars, closeCalls, outcome, captured, obsVars, mainVars>>

\* lines 83-96: page.goto (may raise), the swallowed networkidle wait, and the
\* start of the polling window
Goto ==
    /\ pc = "goto"
    /\ \E ok \in BOOLEAN :
         IF ok THEN pc' = "poll" /\ e' = e
               ELSE Raise("goto-error")
    /\ elapsed' = 0 /\ saw_cf' = FALSE /\ login_page_reached' = FALSE
    /\ windowElapsed' = FALSE /\ challengeSeen' = FALSE
    /\ html_lower' = <<>> /\ tickState' = "none" /\ interaction' = "none"
    /\ UNCHANGED <<callVars, envVars, attempt, sessVars, formVars, pending,
                   wait_sec, outVars, closeCalls, outcome, captured, obsVars, mainVars>>

\* ------------------------------------------------------------ the polling
\* the clock of the polling loop (`elapsed`) counts milliseconds
Ms(seconds) == 1000 * seconds

\* line 104: time.time() - start < max_wait
WindowOpen(t) == t < Ms(max_wait)

\* the time a click that returns takes (below its timeout), lines 147 and 151
ClickTimes == {0, ClickTimeout - 500}

\* the time after which the interaction raises: at once (a lookup, the content
\* frame or the click fails) or when the click runs into its timeout
RaiseTimes == {0, ClickTimeout}

\* lines 132-160: the interaction is entered only with saw_cf set; it finds no
\* turnstile iframe, or no content frame, or clicks, or raises (swallowed, line 159)
InteractionOutcomes(cf) ==
    IF cf THEN {"no-iframe", "no-frame", "clicked", "raised"} ELSE {"skipped"}

\* lines 132-160: the time the interaction takes: a click that returned is
\* followed by the pause of line 155, a raise skips it, no click costs nothing
InteractionTime(act) ==
    CASE act = "clicked" -> {took + ClickPause : took \in ClickTimes}
      [] act = "raised"  -> RaiseTimes
      [] OTHER           -> {0}

\* lines 117-125: cf_flag; frames is what the three query_selector calls of
\* line 122 give: "found", "none" or "raise" (swallowed by line 124)
CfFlag(text, frames) == CfPhraseHit(text) \/ frames = "found"

\* a flag that follows the current tick only
SawCfThisTick(old, cf_flag) == cf_flag

\* lines 127-128: saw_cf is set once and stays set
SawCf(old, cf_flag) == old \/ cf_flag

\* a classification that tests the challenge indicators first
ClassifyChallengeFirst(text, frames) ==
    IF CfFlag(text, frames) THEN "ChallengePending"
    ELSE IF LoginIndicatorHit(text) THEN "LoginFormReady"
    ELSE "Unknown"

\* lines 112-125: what one tick finds in the text it read: a login indicator
\* (line 112, tested first, the frames are then not looked up), else a
\* challenge indicator (cf_flag), else neither
Classify(text, frames) ==
    IF LoginIndicatorHit(text) THEN "LoginFormReady"
    ELSE IF CfFlag(text, frames) THEN "ChallengePending"
    ELSE "Unknown"

\* line 132: the Turnstile block is entered when saw_cf is set
InteractionEntered(cf) == cf

\* an interaction whose exception leaves the polling loop
AfterInteractionPropagates(act) == IF act = "raised" THEN "raise" ELSE "sleep"

\* lines 133, 159-163: an exception of the Turnstile block is logged and the
\* tick goes on to its sleep
AfterInteraction(act) == "sleep"

\* lines 105-109: the texts a tick can read: the lower-cased document the
\* browser shows, or "" when page.content() raises
TickTexts == {Lower(PageRead(content, readOk)) : content \in PollSamples, readOk \in BOOLEAN}

\* what the three query_selector calls of line 122 can give
FrameLookups == {"found", "none", "raise"}

\* lines 112-125 on each text a tick can read: what the tick finds, for each
\* result of the frame lookups
TickClasses == [text \in TickTexts |-> {Classify(text, frames) : frames \in FrameLookups}]

\* lines 104-163: one iteration of the polling loop
PollTick ==
    /\ pc = "poll"
    /\ WindowOpen(elapsed)
    /\ \E text \in TickTexts :
       \E st \in TickClasses[text] :
         /\ html_lower' = text
         /\ tickState' = st
         /\ IF tickState' = "LoginFormReady"
            THEN /\ login_page_reached' = TRUE
                 /\ pc' = "judge" /\ e' = e
                 /\ interaction' = "none"
                 /\ UNCHANGED <<elapsed, saw_cf, challengeSeen>>
            ELSE /\ saw_cf' = SawCf(saw_cf, tickState' = "ChallengePending")
                 /\ challengeSeen' = (challengeSeen \/ tickState' = "ChallengePending")
                 /\ \E act \in InteractionOutcomes(InteractionEntered(saw_cf')) :
                      /\ interaction' = act
                      /\ IF AfterInteraction(act) = "sleep"
                         THEN /\ \E took \in InteractionTime(act) :
                                    elapsed' = elapsed + took + Ms(PollInterval)
                              /\ pc' = "poll" /\ e' = e
                         ELSE /\ Raise("interaction-error")
                              /\ UNCHANGED elapsed
                 /\ UNCHANGED login_page_reached
    /\ UNCHANGED <<callVars, envVars, attempt, sessVars, windowElapsed, formVars, pending,
                   wait_sec, outVars, closeCalls, outcome, captured, obsVars, mainVars>>

\* line 104: the loop condition is false, the window has elapsed
PollExit ==
    /\ pc = "poll"
    /\ ~WindowOpen(elapsed)
    /\ windowElapsed' = TRUE
    /\ pc' = "judge"
    /\ UNCHANGED <<callVars, envVars, attempt, sessVars, elapsed, saw_cf, login_page_reached,
                   challengeSeen, html_lower, tickState, interaction, formVars, excVars,
                   outVars, closeCalls, outcome, captured, obsVars, mainVars>>

\* a verdict that lets every attempt through to the fill step
JudgePollLenient(cf, reached) == "fill"

\* lines 166-175: what the polling phase ends in: "fill" or the error raised
JudgePoll(cf, reached) ==
    IF cf /\ reached THEN "fill"
    ELSE IF cf /\ ~reached THEN "cf-timeout"
    ELSE IF reached THEN "fill"
    ELSE "no-login-or-cf"

\* lines 166-175; the locals of the polling loop are dead from here on
Judge ==
    /\ pc = "judge"
    /\ LET j == JudgePoll(saw_cf, login_page_reached)
       IN  IF j = "fill" THEN pc' = "fill" /\ e' = e ELSE Raise(j)
    /\ elapsed' = 0 /\ html_lower' = <<>> /\ tickState' = "none" /\ interaction' = "none"
    /\ UNCHANGED <<callVars, envVars, attempt, sessVars, saw_cf, login_page_reached,
                   windowElapsed, challengeSeen, formVars, pending, wait_sec, outVars,
                   closeCalls, outcome, captured, obsVars, mainVars>>

\* ------------------------------------------------------ fill and submit
\* line 210: not (filled_user and filled_pw and USER and PWD)
SkipLogin(fu, fp, u, p) == ~(fu /\ fp /\ u /\ p)

\* lines 193-194, 207-208 and 275-276: an exception of a collaborator call made
\* inside one of these try statements is swallowed there and the step goes on
Swallow(s, err, raised) == IF raised THEN s \cup {err} ELSE s

\* lines 177-218: the two fill loops (userOk, pwOk: some selector of the list was
\* found visible and filled without raising; raised: a locator, visibility or
\* fill call of some selector raised, and the loop went on to the next selector)
\* and the keep-alive decision
Fill ==
    /\ pc = "fill"
    /\ \E userOk \in BOOLEAN, pwOk \in BOOLEAN, raised \in BOOLEAN :
         /\ filled_user' = userOk
         /\ filled_pw' = pwOk
         /\ swallowed' = Swallow(swallowed, "fill-error", raised)
         /\ IF SkipLogin(userOk, pwOk, USER, PWD)
            THEN IF login_page_reached
                 THEN outcome' = "keepalive" /\ pc' = "keepalive_close" /\ e' = e
                 ELSE outcome' = outcome /\ Raise("fill-failed")
            ELSE outcome' = outcome /\ pc' = "submit" /\ e' = e
    /\ UNCHANGED <<callVars, envVars, attempt, sessVars, pollVars, submitted, html, current_url,
                   tried, completed, pending, wait_sec, outVars, closeCalls,
                   captured, attempted, last_wait, mainVars>>

\* a chain that tries every strategy whatever the earlier ones did
StrategiesTriedAll(works) == {1, 2, 3}

\* lines 223-260: the strategies tried, in order, given which of them would
\* complete: 1 a button by label, 2 a CSS candidate, 3 Enter in the secret field
StrategiesTried(works) ==
    {1} \cup (IF 1 \in works THEN {} ELSE {2})
        \cup (IF 1 \in works \/ 2 \in works THEN {} ELSE {3})

\* lines 222-269: the submission chain and the settle wait (swallowed timeout),
\* after which the browser shows some document at some address
Submit ==
    /\ pc = "submit"
    /\ \E works \in SUBSET {1, 2, 3} :
         /\ tried' = StrategiesTried(works)
         /\ completed' = tried' \cap works
         /\ submitted' = (completed' # {})
    /\ pc' = "evaluate"
    /\ dom' \in EvalSamples /\ location' \in Urls
    /\ UNCHANGED <<callVars, attempt, sessVars, pollVars, filled_user, filled_pw, html,
                   current_url, excVars, outVars, closeCalls, outcome, captured, obsVars,
                   mainVars>>

\* lines 271-316: read the page and the URL, and decide
Evaluate ==
    /\ pc = "evaluate"
    /\ \E readOk \in BOOLEAN :
         /\ html' = Lower(PageRead(dom, readOk))
         /\ swallowed' = Swallow(swallowed, "content-error", ~readOk)
         /\ current_url' = location
         /\ outcome' = EvaluateOutcome(html', current_url')
    /\ CASE outcome' = "success"  -> pc' = "success_close" /\ e' = e
         [] outcome' = "credfail" -> pc' = "failure_close" /\ e' = e
         [] OTHER                 -> Raise("login-unknown-state")
    /\ UNCHANGED <<callVars, envVars, attempt, sessVars, pollVars, filled_user, filled_pw,
                   submitted, tried, completed, pending, wait_sec, outVars,
                   closeCalls, captured, attempted, last_wait, mainVars>>

\* ------------------------------------------------------------ the release
\* `if context: context.close()` then `if browser: browser.close()`: a local that
\* is not None is closed; when context.close() raises, browser.close() is not
\* reached.  A close() that raises leaves the object as it was.
CloseBoth(ctxRaises, brwRaises) ==
    LET callCtx   == context # "None"
        ctxFailed == callCtx /\ ctxRaises
        callBrw   == ~ctxFailed /\ browser # "None"
        brwFailed == callBrw /\ brwRaises
    IN  [context |-> IF callCtx /\ ~ctxRaises THEN "closed" ELSE context,
         browser |-> IF callBrw /\ ~brwRaises THEN "closed" ELSE browser,
         calls   |-> IF callBrw THEN 1 ELSE 0,
         raised  |-> ctxFailed \/ brwFailed]

\* lines 214-216 and 303-305: the closes inside the try block, then return; the
\* return is carried out by the finally clause
InlineCloseReturn(at) ==
    /\ pc = at
    /\ \E ctxRaises \in BOOLEAN, brwRaises \in BOOLEAN :
         LET c == CloseBoth(ctxRaises, brwRaises)
         IN  /\ context' = c.context /\ browser' = c.browser
             /\ closeCalls' = closeCalls + c.calls
             /\ IF c.raised
                THEN Raise("close-error") /\ pending' = pending
                ELSE pc' = "finally" /\ pending' = "return" /\ e' = e
    /\ UNCHANGED <<callVars, envVars, attempt, page, pollVars, formVars, wait_sec, outVars,
                   outcome, captured, obsVars, mainVars>>

KeepaliveClose == InlineCloseReturn("keepalive_close")

SuccessClose == InlineCloseReturn("success_close")

\* lines 311-313: the closes inside the try block, then the credential error
FailureClose ==
    /\ pc = "failure_close"
    /\ \E ctxRaises \in BOOLEAN, brwRaises \in BOOLEAN :
         LET c == CloseBoth(ctxRaises, brwRaises)
         IN  /\ context' = c.context /\ browser' = c.browser
             /\ closeCalls' = closeCalls + c.calls
             /\ IF c.raised THEN Raise("close-error") ELSE Raise("login-failed")
    /\ UNCHANGED <<callVars, envVars, attempt, page, pollVars, formVars, pending, wait_sec,
                   outVars, outcome, captured, obsVars, mainVars>>

\* ------------------------------------------------ the handler and finally
\* a handler that never gives up
RetryAllowedAlways(a, r) == TRUE

\* a retry test that gives up one attempt early
RetryAllowedOffByOne(a, r) == a < r

\* line 342: attempt <= max_retries
RetryAllowed(a, r) == a <= r

\* a backoff that does not grow
BackoffFlat(a) == BackoffBase

\* line 343: wait_sec = 10 + attempt * 5
Backoff(a) == BackoffBase + a * BackoffStep

\* a capture that gives up the dump when the screenshot failed
CaptureAttemptsChained(pg, shotOk) ==
    IF pg = "None" THEN {}
    ELSE IF shotOk THEN {"screenshot", "html"} ELSE {"screenshot"}

\* lines 323-337: `if page:` then the screenshot and the dump, each in its own
\* try: both are started whenever the page local is set
CaptureAttempts(pg, shotOk) ==
    IF pg = "None" THEN {} ELSE {"screenshot", "html"}

\* lines 324-337: the artifacts written: page.screenshot and page.content each
\* return or raise on their own, whatever the state of the session
Artifacts(shotOk, dumpOk) ==
    (IF shotOk THEN {"screenshot"} ELSE {}) \cup (IF dumpOk THEN {"html"} ELSE {})

\* lines 318-348: the except clause: diagnostic capture, then the backoff sleep
\* and a new iteration, or `raise e`; both leave through the finally clause
Handler ==
    /\ pc = "except"
    /\ \E shotOk \in BOOLEAN, dumpOk \in BOOLEAN :
         /\ attempted' = CaptureAttempts(page, shotOk)
         /\ captured' = Artifacts(shotOk, dumpOk) \cap attempted'
    /\ IF RetryAllowed(attempt, max_retries)
       THEN wait_sec' = Backoff(attempt) /\ pending' = "continue"
       ELSE wait_sec' = wait_sec /\ pending' = "raise"
    /\ pc' = "finally"
    /\ UNCHANGED <<callVars, envVars, attempt, sessVars, pollVars, formVars, e, outVars,
                   closeCalls, outcome, last_wait, swallowed, mainVars>>

\* lines 350-355: the closes of the finally clause (an exception is logged and
\* swallowed), then the pending return, raise or next iteration
Finally ==
    /\ pc = "finally"
    /\ \E ctxRaises \in BOOLEAN, brwRaises \in BOOLEAN :
         LET c == CloseBoth(ctxRaises, brwRaises)
         IN  /\ context' = c.context /\ browser' = c.browser
             /\ closeCalls' = closeCalls + c.calls
    /\ CASE pending = "return" ->
              /\ pc' = "done" /\ result' = "returned" /\ error' = error
         [] pending = "raise" ->
              /\ pc' = "done" /\ result' = "raised" /\ error' = e
         [] OTHER ->
              /\ pc' = "while" /\ UNCHANGED outVars
    /\ UNCHANGED <<callVars, envVars, attempt, page, pollVars, formVars, excVars, outcome,
                   captured, obsVars, mainVars>>

\* ------------------------------------------------------------------ main
\* the parsed accounts (lines 378-383) of the batch runs explored: an account is
\* its pair of truth values (identity non-empty, secret non-empty); its position
\* in the list stands for its identity
AccountKinds == {[USER |-> TRUE, PWD |-> TRUE], [USER |-> TRUE, PWD |-> FALSE]}

AccountLists == SeqsUpTo(AccountKinds, MaxAccounts) \ {<<>>}

\* main at line 398, with a non-empty parsed list (line 388 returns otherwise):
\* the report holds its title line (line 395), the count is 0 (line 396);
\* login_account is not running
InitMain ==
    /\ mainpc = "start" /\ accounts \in AccountLists /\ idx = 0
    /\ success_count = 0 /\ report_lines = <<[kind |-> "title", acct |-> 0]>>
    /\ pc = "idle" /\ max_retries = MainMaxRetries /\ USER = FALSE /\ PWD = FALSE
    /\ attempt = 0
    /\ browser = "None" /\ context = "None" /\ page = "None"
    /\ elapsed = 0 /\ saw_cf = FALSE /\ login_page_reached = FALSE
    /\ windowElapsed = FALSE /\ challengeSeen = FALSE
    /\ html_lower = <<>> /\ tickState = "none" /\ interaction = "none"
    /\ filled_user = FALSE /\ filled_pw = FALSE /\ submitted = FALSE
    /\ html = <<>> /\ current_url = <<>> /\ tried = {} /\ completed = {}
    /\ e = "none" /\ pending = "none" /\ wait_sec = 0
    /\ result = "running" /\ error = "none"
    /\ closeCalls = 0 /\ outcome = "none" /\ captured = {}
    /\ attempted = {} /\ last_wait = 0 /\ swallowed = {}
    /\ dom = <<>> /\ location = <<>>

\* line 399: entering `with sync_playwright() as p`; when it raises, the outer
\* handler (lines 417-421) records the error and no account is processed
MainStart ==
    /\ mainpc = "start"
    /\ \E ok \in BOOLEAN :
         IF ok THEN mainpc' = "for" /\ idx' = 1 /\ report_lines' = report_lines
               ELSE /\ mainpc' = "report" /\ idx' = idx
                    /\ report_lines' = Append(report_lines, [kind |-> "fatal", acct |-> 0])
    /\ UNCHANGED <<pc, callVars, envVars, attempt, sessVars, pollVars, formVars, excVars,
                   outVars, closeCalls, outcome, captured, obsVars, accounts,
                   success_count>>

\* lines 400-403: the next account of the list is handed to login_account with
\* max_retries = 2; after the last one the with block is left (its exit raising
\* is recorded by the outer handler)
MainFor ==
    /\ mainpc = "for" /\ pc = "idle"
    /\ IF idx <= Len(accounts)
       THEN /\ mainpc' = "call"
            /\ pc' = "while" /\ max_retries' = MainMaxRetries
            /\ USER' = accounts[idx].USER /\ PWD' = accounts[idx].PWD
            /\ attempt' = 0
            /\ browser' = "None" /\ context' = "None" /\ page' = "None"
            /\ elapsed' = 0 /\ saw_cf' = FALSE /\ login_page_reached' = FALSE
            /\ windowElapsed' = FALSE /\ challengeSeen' = FALSE
            /\ html_lower' = <<>> /\ tickState' = "none" /\ interaction' = "none"
            /\ filled_user' = FALSE /\ filled_pw' = FALSE /\ submitted' = FALSE
            /\ html' = <<>> /\ current_url' = <<>> /\ tried' = {} /\ completed' = {}
            /\ e' = "none" /\ pending' = "none" /\ wait_sec' = 0
            /\ result' = "running" /\ error' = "none"
            /\ closeCalls' = 0 /\ outcome' = "none" /\ captured' = {}
            /\ attempted' = {} /\ last_wait' = 0 /\ swallowed' = {}
            /\ dom' = <<>> /\ location' = <<>>
            /\ UNCHANGED <<accounts, idx, success_count, report_lines>>
       ELSE /\ mainpc' = "report"
            /\ \E ok \in BOOLEAN :
                 report_lines' = IF ok THEN report_lines
                                 ELSE Append(report_lines, [kind |-> "fatal", acct |-> 0])
            /\ UNCHANGED <<pc, callVars, envVars, attempt, sessVars, pollVars, formVars, excVars,
                           outVars, closeCalls, outcome, captured, obsVars, accounts,
                           idx, success_count>>

\* lines 405-407 and 408-414: what is recorded for the account once
\* login_account has returned or raised
ResultLine(i, res) == [kind |-> IF res = "returned" THEN "ok" ELSE "fail", acct |-> i]

\* line 407: success_count += 1, on the normal return only
CountSuccess(n, res) == IF res = "returned" THEN n + 1 ELSE n

\* lines 404-416: the end of the call: the success branch or the per-account
\* handler, the pause, and the step to the next account; the frame of
\* login_account is gone
MainResult ==
    /\ mainpc = "call" /\ pc = "done"
    /\ report_lines' = Append(report_lines, ResultLine(idx, result))
    /\ success_count' = CountSuccess(success_count, result)
    /\ idx' = idx + 1
    /\ mainpc' = "for" /\ pc' = "idle"
    /\ max_retries' = MainMaxRetries /\ USER' = FALSE /\ PWD' = FALSE
    /\ attempt' = 0
    /\ browser' = "None" /\ context' = "None" /\ page' = "None"
    /\ elapsed' = 0 /\ saw_cf' = FALSE /\ login_page_reached' = FALSE
    /\ windowElapsed' = FALSE /\ challengeSeen' = FALSE
    /\ html_lower' = <<>> /\ tickState' = "none" /\ interaction' = "none"
    /\ filled_user' = FALSE /\ filled_pw' = FALSE /\ submitted' = FALSE
    /\ html' = <<>> /\ current_url' = <<>> /\ tried' = {} /\ completed' = {}
    /\ e' = "none" /\ pending' = "none" /\ wait_sec' = 0
    /\ result' = "running" /\ error' = "none"
    /\ closeCalls' = 0 /\ outcome' = "none" /\ captured' = {}
    /\ attempted' = {} /\ last_wait' = 0 /\ swallowed' = {}
    /\ dom' = <<>> /\ location' = <<>>
    /\ UNCHANGED accounts

\* lines 423-429: the separator line (line 424), the totals line (line 425:
\* total, successes, failures) and the send, whose failure is swallowed
\* (lines 33-40)
MainReport ==
    /\ mainpc = "report"
    /\ report_lines' = report_lines \o
                          <<[kind |-> "separator", acct |-> 0],
                            [kind |-> "summary", acct |-> 0,
                             total |-> Len(accounts), ok |-> success_count,
                             failed |-> Len(accounts) - success_count]>>
    /\ mainpc' = "end"
    /\ UNCHANGED <<pc, callVars, envVars, attempt, sessVars, pollVars, formVars, excVars,
                   outVars, closeCalls, outcome, captured, obsVars, accounts, idx,
                   success_count>>

MainStep == MainStart \/ MainFor \/ MainResult \/ MainReport

\* every step of login_account but the statement after the loop
LoopStep ==
    \/ LoopTest
    \/ Launch \/ NewContext \/ NewPage \/ Goto
    \/ PollTick \/ PollExit \/ Judge
    \/ Fill \/ KeepaliveClose
    \/ Submit \/ Evaluate \/ SuccessClose \/ FailureClose
    \/ Handler \/ Finally

Next == LoopStep \/ PostLoop

Spec == Init /\ [][Next]_vars

\* main, with the calls of login_account it makes; with max_retries = 2 the
\* statement after the loop is never reached, so it is no step of a batch run
NextMain == LoopStep \/ MainStep

SpecMain == InitMain /\ [][NextMain]_vars

\* the post-submit evaluation on its own: an attempt that has submitted, with
\* the browser showing any document of Pages at any address of Urls
InitEval ==
    /\ pc = "evaluate" /\ max_retries = MainMaxRetries /\ USER = TRUE /\ PWD = TRUE
    /\ attempt = 1
    /\ browser = "open" /\ context = "open" /\ page = "open"
    /\ elapsed = 0 /\ saw_cf = FALSE /\ login_page_reached = TRUE
    /\ windowElapsed = FALSE /\ challengeSeen = FALSE
    /\ html_lower = <<>> /\ tickState = "none" /\ interaction = "none"
    /\ filled_user = TRUE /\ filled_pw = TRUE /\ submitted = TRUE
    /\ html = <<>> /\ current_url = <<>> /\ tried = {1} /\ completed = {1}
    /\ e = "none" /\ pending = "none" /\ wait_sec = 0
    /\ result = "running" /\ error = "none"
    /\ closeCalls = 0 /\ outcome = "none" /\ captured = {}
    /\ attempted = {} /\ last_wait = 0 /\ swallowed = {}
    /\ dom \in Pages /\ location \in Urls
    /\ mainpc = "direct" /\ accounts = <<>> /\ idx = 0
    /\ success_count = 0 /\ report_lines = <<>>

NextEval == Evaluate

SpecEval == InitEval /\ [][NextEval]_vars

\* login_account is straight-line code around terminating calls: a step that
\* can be taken is taken
FairSpec == Spec /\ WF_vars(Next)

\* ================================================================ claims
\* the attempt has run its finally clause
AttemptOver == pc \in {"while", "done"} /\ attempt >= 1

\* C1: every attempt that launched a browser has made exactly one
\* browser.close() call by the time its finally clause has run (not zero, not
\* two), on every path.
C1_ClosedExactlyOnce == (AttemptOver /\ browser # "None") => closeCalls = 1

\* C2: a browser launched by an attempt is closed before the next attempt
\* starts and before login_account returns or raises, also when the session is
\* partly initialised and when closing the context raises; so no browser of an
\* earlier attempt is ever still open.
C2_NoBrowserLeaked == AttemptOver => ~Unreleased(browser, closeCalls)

\* C3: an attempt that determined the credential failure (failure indicator,
\* no success indicator) and raised it is never retried: no backoff sleep, no
\* new iteration, and the call ends raising, whatever max_retries is.
C3_CredentialFailureNotRetried ==
    (outcome = "credfail" /\ e = "login-failed") =>
        /\ pending # "continue"
        /\ wait_sec = 0
        /\ (pc = "done" => result = "raised")

\* C4: attempts are counted from 1 and never exceed max_retries + 1; a failed
\* attempt with budget left is followed by another one, and the call raises
\* only from attempt number max_retries + 1.
C4_AttemptBudget ==
    /\ attempt <= max_retries + 1
    /\ (pc \notin {"while", "postloop", "done"} => attempt >= 1)
    /\ (pending = "continue" => attempt <= max_retries)
    /\ (pending = "raise" => attempt = max_retries + 1)
    /\ (pc = "done" => \/ result = "returned"
                       \/ result = "raised" /\ attempt = max_retries + 1)

\* C4 witness: three failed attempts with max_retries = 2, then the failure
C4_Witness ==
    /\ pc = "done" /\ result = "raised" /\ max_retries = 2 /\ attempt = 3
    /\ error = "login-unknown-state"

\* C5: once an attempt has determined Success (success indicator or keep-alive
\* short-circuit) the call returns normally from that attempt: the handler is
\* not entered, nothing is captured, no backoff is slept, no retry is pending.
C5_SuccessReturnsAtOnce ==
    outcome \in {"success", "keepalive"} =>
        /\ pc \in {"keepalive_close", "success_close", "finally", "done"}
        /\ pending \in {"none", "return"}
        /\ captured = {} /\ wait_sec = 0
        /\ (pc = "done" => result = "returned")

\* the per-account lines of the report, in the order they were appended
AccountLines == SelectSeq(report_lines, LAMBDA l : l.kind \in {"ok", "fail"})

\* C6: the batch runner takes the accounts of the parsed list in list order,
\* one at a time, and records exactly one result line (success or failure) for
\* each: while the loop runs the accounts before the current one have their
\* line, a call that raised is recorded as a failure and the loop goes on, and
\* once the loop is over every account of the list has its line, so that the
\* recorded successes plus the recorded failures, which are the totals of the
\* summary, is the number of accounts.
C6_OneResultPerAccount ==
    LET L     == AccountLines
        oks   == Cardinality({k \in 1..Len(L) : L[k].kind = "ok"})
        fails == Cardinality({k \in 1..Len(L) : L[k].kind = "fail"})
    IN  /\ \A k \in 1..Len(L) : L[k].acct = k
        /\ success_count = oks
        /\ (mainpc \in {"for", "call"} => Len(L) = idx - 1)
        /\ (mainpc = "call" => idx \in 1..Len(accounts))
        /\ (mainpc \in {"report", "end"} => Len(L) = Len(accounts))
        /\ (mainpc = "end" =>
              LET sum == report_lines[Len(report_lines)]
              IN  /\ sum.kind = "summary" /\ sum.total = Len(accounts)
                  /\ sum.ok = oks /\ sum.failed = fails
                  /\ oks + fails = Len(accounts))

\* C7: with every call returning or raising and the clock advancing, the call
\* ends, returned or raised, and stays ended, within max_retries + 1 attempts;
\* on the way each polling loop is left, and it is left only for the statements
\* after it (login surface reached, or the window elapsed), so no attempt stays
\* in its polling loop.
C7_NeverHangs ==
    /\ <>(pc = "done" /\ result \in {"returned", "raised"})
    /\ [][pc = "done" => pc' = "done"]_vars
    /\ [][pc = "poll" /\ pc' # "poll" =>
             pc' = "judge" /\ (login_page_reached' \/ ~WindowOpen(elapsed))]_vars
    /\ [](attempt <= max_retries + 1)

\* C7 witness: a call that ended after a polling window had elapsed on its
\* last attempt
C7_Witness ==
    /\ pc = "done" /\ result = "raised" /\ windowElapsed
    /\ attempt = max_retries + 1 /\ max_retries = 2

\* C8: the polling phase ends in cf-timeout exactly when the window elapsed
\* with a challenge seen on some tick and the login surface not reached, in
\* no-login-or-cf exactly when it elapsed with neither, and goes on to the fill
\* step whenever the login surface was reached (challenge seen before or not);
\* both errors are retried while attempts remain.
C8_PollVerdict ==
    /\ [](pc # "judge" =>
            /\ (e = "cf-timeout") <=>
                   (windowElapsed /\ challengeSeen /\ ~login_page_reached)
            /\ (e = "no-login-or-cf") <=>
                   (windowElapsed /\ ~challengeSeen /\ ~login_page_reached)
            /\ ~(windowElapsed /\ login_page_reached)
            /\ (pc = "fill" => login_page_reached)
            /\ (e \in {"cf-timeout", "no-login-or-cf"} /\ pc = "finally"
                  /\ attempt <= max_retries => pending = "continue"))
    /\ [][pc = "judge" /\ login_page_reached => pc' = "fill"]_vars

\* C8 witness: a challenge was seen, the window elapsed, the attempt is retried
C8_Witness ==
    /\ pc = "finally" /\ e = "cf-timeout" /\ pending = "continue"
    /\ challengeSeen /\ windowElapsed

\* the attempt reached the login surface and has run its fill step
FillDone == login_page_reached /\ pc \notin {"judge", "fill"}

\* C9: after the fill step of an attempt that reached the login surface, a
\* submission strategy is tried only with both fields filled and identity and
\* secret non-empty; otherwise the attempt ends in Success as a keep-alive:
\* nothing is submitted or evaluated, and the call returns normally.
C9_SubmitOnlyIfFilled ==
    FillDone =>
        LET both == filled_user /\ filled_pw /\ USER /\ PWD
        IN  /\ (tried # {} => both)
            /\ (~both =>
                  /\ outcome = "keepalive" /\ tried = {}
                  /\ pc \in {"keepalive_close", "finally", "done"}
                  /\ pending \in {"none", "return"}
                  /\ (pc = "done" => result = "returned"))

\* C10: the post-submit evaluation gives Success when any success phrase is in
\* the text or any success fragment in the URL, even with a failure phrase
\* present; else the credential failure when a failure phrase is in the text;
\* else the unknown-state error; always exactly one of the three.
C10_EvaluationPriority ==
    outcome # "none" =>
        LET s == \/ \E k \in 1..Len(success_signs) : Contains(html, success_signs[k])
                 \/ \E k \in 1..Len(success_url_parts) :
                        Contains(current_url, success_url_parts[k])
            f == \E k \in 1..Len(failure_signs) : Contains(html, failure_signs[k])
        IN  /\ outcome \in {"success", "credfail", "unknown"}
            /\ (s => outcome = "success" /\ pc = "success_close")
            /\ (~s /\ f => outcome = "credfail" /\ pc = "failure_close")
            /\ (~s /\ ~f => outcome = "unknown" /\ pc = "except"
                              /\ e = "login-unknown-state")

\* C10 witness: a page with a success and a failure indicator was evaluated
C10_Witness == outcome = "success" /\ FailureHit(html) /\ pc = "success_close"

\* the unexpected exceptions of the collaborator calls of an attempt: launch,
\* new_context, new_page, goto, a close() call made inside the try block, a
\* locator, visibility or fill call of the fill step (lines 186-188 and
\* 200-202), and the page read of the evaluation (line 274)
UnexpectedErrors ==
    {"launch-error", "context-error", "page-error", "goto-error", "close-error",
     "fill-error", "content-error"}

\* the unexpected exceptions raised so far in the current attempt: the one that
\* left its step, and those swallowed where they occurred
RaisedInAttempt == (IF e \in UnexpectedErrors THEN {e} ELSE {}) \cup swallowed

\* C11: an attempt in which an unexpected exception was raised, at whichever
\* step (launch, context or page creation, navigation, fill, evaluation), ends
\* as a retryable failure: its try statement is left with a new iteration
\* scheduled while attempts remain and with the exception re-raised otherwise,
\* so the call never returns from such an attempt, and it raises only from
\* attempt max_retries + 1.
C11_UnexpectedIsRetryable ==
    RaisedInAttempt # {} =>
        /\ (pc \in {"finally", "while"} =>
              pending = IF attempt <= max_retries THEN "continue" ELSE "raise")
        /\ (pc = "done" => result = "raised" /\ attempt = max_retries + 1)

\* C12: an exception inside the challenge interaction of a tick ends neither
\* the attempt nor the polling loop: the tick still sleeps its interval, the
\* flags the verdict is taken from are what the tick's classification alone
\* makes them, and the loop then classifies again while the window is open (and
\* leaves through the window test otherwise).
C12_InteractionFailureContained ==
    /\ [](interaction = "raised" => pc \in {"poll", "judge"} /\ e = "none")
    /\ [][(pc = "poll" /\ WindowOpen(elapsed) /\ interaction' = "raised") =>
             /\ pc' = "poll" /\ e' = e
             /\ elapsed' >= elapsed + Ms(PollInterval)
             /\ saw_cf' = (saw_cf \/ tickState' = "ChallengePending")
             /\ login_page_reached' = login_page_reached]_vars
    /\ [][(pc = "poll" /\ interaction = "raised") =>
             IF WindowOpen(elapsed)
             THEN pc' \in {"poll", "judge"} /\ html_lower' \in TickTexts
                  /\ tickState' \in {"LoginFormReady", "ChallengePending", "Unknown"}
             ELSE pc' = "judge" /\ windowElapsed']_vars

\* C12 witness: the interaction of the second or a later tick raised, and the
\* loop is about to run its next tick
C12_Witness ==
    /\ pc = "poll" /\ interaction = "raised" /\ elapsed >= 2 * Ms(PollInterval)
    /\ WindowOpen(elapsed) /\ tickState = "ChallengePending"

\* C13: diagnostic capture does not steer the control flow: captures are
\* started and artifacts written only by the handler of an attempt that raised;
\* with a page both the screenshot and the dump are started, whatever the
\* screenshot did, and without a page neither; and the decision after the
\* failure (backoff 10 + 5 * attempt and a new iteration while attempts remain,
\* else the attempt's own error raised) is a function of attempt and
\* max_retries alone.
C13_CaptureNeverDecides ==
    /\ captured \subseteq attempted
    /\ (attempted # {} => e # "none" /\ pc \in {"finally", "while", "done"})
    /\ (attempted # {} /\ pc = "done" => result = "raised")
    /\ ((pc = "finally" /\ e # "none") =>
          /\ attempted = IF page = "None" THEN {} ELSE {"screenshot", "html"}
          /\ pending = IF attempt <= max_retries THEN "continue" ELSE "raise"
          /\ wait_sec = IF attempt <= max_retries THEN 10 + 5 * attempt ELSE 0)
    /\ ((pc = "done" /\ result = "raised" /\ max_retries >= 0) => error = e)

\* C13 witness: the screenshot failed, the dump was written, the attempt is
\* retried
C13_Witness ==
    /\ pc = "finally" /\ captured = {"html"} /\ attempted = {"screenshot", "html"}
    /\ pending = "continue"

\* the Turnstile block was entered on the latest tick
Entered == interaction \in {"no-iframe", "no-frame", "clicked", "raised"}

\* C14: the challenge interaction is entered only on a tick whose own
\* classification is ChallengePending: never on a tick classified Unknown and
\* never on the tick that detects the login surface.
C14_InteractionOnlyOnChallengeTick ==
    /\ (Entered => tickState = "ChallengePending")
    /\ (tickState = "LoginFormReady" => ~Entered)

\* the texts a tick can read that hold a login indicator, a challenge phrase
LoginTexts == {text \in TickTexts : LoginIndicatorHit(text)}
ChallengeTexts == {text \in TickTexts : CfPhraseHit(text)}

\* C15: login indicators have priority over challenge indicators: a tick whose
\* text matches a login indicator (with a challenge phrase in it or not) finds
\* LoginFormReady, leaves the polling loop on that very tick without sleeping,
\* does not mark a challenge as seen and enters no interaction;
\* ChallengePending is found only with a challenge indicator and no login
\* indicator, Unknown only with neither.
C15_LoginIndicatorsFirst ==
    /\ [](tickState # "none" =>
            /\ html_lower \in TickTexts
            /\ (tickState = "LoginFormReady") <=> (html_lower \in LoginTexts)
            /\ (html_lower \notin LoginTexts /\ html_lower \in ChallengeTexts =>
                   tickState = "ChallengePending")
            /\ (tickState = "Unknown" => html_lower \notin ChallengeTexts)
            /\ (tickState = "ChallengePending" => saw_cf /\ challengeSeen)
            /\ (tickState = "LoginFormReady" =>
                   pc = "judge" /\ login_page_reached /\ ~Entered))
    /\ [][(pc = "poll" /\ WindowOpen(elapsed) /\ html_lower' \in LoginTexts) =>
             /\ pc' = "judge" /\ login_page_reached'
             /\ saw_cf' = saw_cf /\ challengeSeen' = challengeSeen
             /\ elapsed' = elapsed /\ interaction' = "none"]_vars
    /\ [][(pc = "poll" /\ tickState' = "Unknown") =>
             saw_cf' = saw_cf /\ challengeSeen' = challengeSeen]_vars

\* C15 witness: the first tick read a text with a login indicator and a
\* challenge phrase, and the loop was left with no challenge marked
C15_Witness ==
    /\ pc = "judge" /\ tickState = "LoginFormReady"
    /\ html_lower \in LoginTexts /\ html_lower \in ChallengeTexts
    /\ ~saw_cf /\ ~challengeSeen /\ elapsed = 0

\* C16: the submission strategies are tried in the order 1 (button by label),
\* 2 (CSS candidate), 3 (Enter in the secret field), each only when all earlier
\* ones failed to complete, so at most one completes; and the chain is always
\* followed by the settle wait and the evaluation, with one strategy completed
\* or none.
C16_SubmissionChain ==
    /\ [](/\ completed \subseteq tried
          /\ Cardinality(completed) <= 1
          /\ (tried # {} => 1 \in tried)
          /\ (2 \in tried => 1 \in tried /\ 1 \notin completed)
          /\ (3 \in tried => 2 \in tried /\ completed \cap {1, 2} = {})
          /\ (submitted <=> completed # {}))
    /\ [][pc = "submit" => pc' = "evaluate" /\ tried' # {}]_vars

\* C16 witness: all three strategies were tried and failed, and the attempt is
\* at the evaluation
C16_Witness == pc = "evaluate" /\ tried = {1, 2, 3} /\ completed = {} /\ ~submitted

\* C17: a backoff is slept exactly between consecutive attempts: after failed
\* attempt i with i <= max_retries the handler sleeps 10 + 5 * i seconds and
\* attempt i + 1 follows, so the sleep before attempt k >= 2 was 10 + 5 * (k - 1)
\* and each sleep is longer than the one before; no sleep comes before attempt
\* 1, after a successful attempt, or after the failure of attempt
\* max_retries + 1.
C17_BackoffBetweenAttempts ==
    /\ ((pc = "finally" /\ e # "none") =>
          IF attempt <= max_retries
          THEN wait_sec = 10 + 5 * attempt /\ pending = "continue"
          ELSE wait_sec = 0 /\ pending = "raise")
    /\ (wait_sec # 0 => e # "none" /\ attempt \in 1..max_retries)
    /\ (last_wait = IF attempt >= 2 THEN 10 + 5 * (attempt - 1) ELSE 0)
    /\ (wait_sec # 0 /\ last_wait # 0 => wait_sec > last_wait)
    /\ (pc = "done" => wait_sec = 0)

\* C17 witness: attempt 2 failed after a 15 s backoff and has slept 20 s
C17_Witness ==
    /\ pc = "finally" /\ attempt = 2 /\ last_wait = 15 /\ wait_sec = 20
    /\ pending = "continue"

\* C18: whenever the handler has started a capture for a failed attempt, the
\* attempt's session (context and browser) is still open: capture precedes the
\* release.  Stated for every failure but that of a close() call itself.
C18_CaptureBeforeRelease ==
    (pc = "finally" /\ attempted # {} /\ e # "close-error") =>
        browser = "open" /\ context = "open"

\* C19: for max_retries >= 0 the statement after the loop is never reached and
\* its error never raised; a call that raises does so from the handler of
\* attempt max_retries + 1, with the exception that attempt caught.
C19_FinalErrorFromLoop ==
    max_retries >= 0 =>
        /\ pc # "postloop" /\ error # "failed-all"
        /\ ((pc = "done" /\ result = "raised") =>
              /\ error = e /\ e # "none"
              /\ attempt = max_retries + 1 /\ pending = "raise")

\* C19 witness: two attempts failed and were slept after, the third could not
\* launch a browser, and its error is the one raised
C19_Witness ==
    /\ pc = "done" /\ result = "raised" /\ max_retries = 2 /\ attempt = 3
    /\ last_wait = 20 /\ error = "launch-error" /\ browser = "None"

\* C20: the fill step is reached only with the login surface marked as
\* reached (an attempt whose window elapsed has failed with cf-timeout or
\* no-login-or-cf), so the error of line 218 is never raised; fields that could
\* not be filled make the attempt a keep-alive, not a failure.
C20_FillErrorUnreachable ==
    /\ e # "fill-failed" /\ error # "fill-failed"
    /\ (pc = "fill" => login_page_reached)
    /\ (windowElapsed /\ pc # "judge" => e \in {"cf-timeout", "no-login-or-cf"})
    /\ (FillDone /\ ~(filled_user /\ filled_pw) => outcome = "keepalive")

\* C20 witness: credentials were given, no field could be filled, and the
\* attempt goes on as a keep-alive
C20_Witness ==
    /\ pc = "keepalive_close" /\ USER /\ PWD /\ ~filled_user /\ ~filled_pw
    /\ login_page_reached /\ outcome = "keepalive"

====
